---- MODULE Spec2Model ----
(***************************************************************************)
(* Model of gdrive-cli's GDriveApi (src/src/drive/GDriveApi.py): the       *)
(* folder stack, the current listing (drive_items), the per-folder cache   *)
(* that aliases it, and the commands cd / upload / download / ls / typeof  *)
(* / get_names / get_current_path_string / logout, over a small remote     *)
(* drive whose listing is paged and whose requests may fail.               *)
(***************************************************************************)
EXTENDS Integers, Sequences, FiniteSets, TLC

(* ------------------------------ bounds --------------------------------- *)
\* listing fetches that may raise HttpError during one session
MaxFails == 1
\* files created on the remote by upload during one session
MaxUploads == 1

(* --------------------------- program constants -------------------------- *)
FOLDER_MIME == "application/vnd.google-apps.folder"
NATIVE_PREFIX == "application/vnd.google-apps"
DOC_MIME == "application/vnd.google-apps.document"
PLAIN_MIME == "text/plain"
PDF_MIME == "application/pdf"
DOCX_MIME == "application/vnd.openxmlformats-officedocument.wordprocessingml.document"
XLSX_MIME == "application/vnd.openxmlformats-officedocument.spreadsheetml.sheet"
PPTX_MIME == "application/vnd.openxmlformats-officedocument.presentationml.presentation"
\* ColorText.bcolors escape sequences, kept symbolic
OKBLUE == "<OKBLUE>"
ENDC == "<ENDC>"
MSG_CANNOT_FIND == "Cannot find folder."
MSG_NOT_EXIST == "File/Folder does not exist"
MSG_FILE_NOT_FOUND == "File not found"

\* Optional values: <<>> is None, <<v>> is v
None == <<>>
Some(v) == <<v>>

(* ------------------------------- dicts ---------------------------------- *)
\* A Python dict is an insertion-ordered sequence of [key, val] with unique keys.
EmptyDict == <<>>

DictKeys(d) == [i \in 1..Len(d) |-> d[i].key]

DictHas(d, k) == \E i \in 1..Len(d) : d[i].key = k

DictGet(d, k) == d[CHOOSE i \in 1..Len(d) : d[i].key = k].val

\* d[k] = v: an existing key keeps its position, a new key goes last
DictSet(d, k, v) ==
    IF DictHas(d, k)
    THEN [i \in 1..Len(d) |-> IF d[i].key = k THEN [key |-> k, val |-> v] ELSE d[i]]
    ELSE Append(d, [key |-> k, val |-> v])

RECURSIVE DictUpdateKeepFirst(_, _)
\* an update in which a name already present keeps its entry, as main.py's
\* go_into_folder takes wanted_items[0]
DictUpdateKeepFirst(d, items) ==
    IF items = <<>> THEN d
    ELSE DictUpdateKeepFirst(IF DictHas(d, Head(items)["name"]) THEN d
                             ELSE DictSet(d, Head(items)["name"], Head(items)),
                             Tail(items))

RECURSIVE DictUpdateByName(_, _)
\* d.update({i['name']: i for i in items})
DictUpdateByName(d, items) ==
    IF items = <<>> THEN d
    ELSE DictUpdateByName(DictSet(d, Head(items)["name"], Head(items)), Tail(items))

StartsWith(s, p) == Len(s) >= Len(p) /\ SubSeq(s, 1, Len(p)) = p

(* ------------------------------ the remote ------------------------------ *)
Item(id, name, mime) == [id |-> id, name |-> name, mimeType |-> mime]

\* The drive at the start of the session: children of each folder id, as the
\* pages the listing request returns them in.  The root holds two folders named
\* "A", on different pages, and a folder named ".."; the second A holds two files
\* named "d" on one page and a file "e" on the next.
InitRemote ==
    [ root |-> << << Item("idA0", "A", FOLDER_MIME) >>,
                  << Item("idA", "A", FOLDER_MIME), Item("idDD", "..", FOLDER_MIME) >> >>,
      idA  |-> << << Item("idD1", "d", PLAIN_MIME), Item("idD2", "d", DOC_MIME) >>,
                  << Item("idE", "e", PLAIN_MIME) >> >> ]

\* names a cd may be given
Names == {"A", "d", ".."}

\* pages of files().list(q="'<id>' in parents ..."): an id without children
\* (a file, an empty folder) answers one empty page
ListPages(rem, id) == IF id \in DOMAIN rem THEN rem[id] ELSE << << >> >>

\* files().create(parents=[parent]): the new file is listed last under parent
RemoteCreate(rem, parent, item) ==
    LET pages == ListPages(rem, parent)
        n == Len(pages)
        grown == [pages EXCEPT ![n] = Append(pages[n], item)]
    IN  [id \in (DOMAIN rem) \cup {parent} |-> IF id = parent THEN grown ELSE rem[id]]

(* ------------------------------- state ---------------------------------- *)
VARIABLES
    remote,        \* the drive: folder id -> pages of children
    folder_stack,  \* self.folder_stack: sequence of [name, id]
    heap,          \* the dict objects the session has created, by address
    drive_items,   \* self.drive_items: address of the current listing
    cache,         \* self.cache: folder id -> address of its listing
    credentials,   \* self.credentials: "set" or None
    active,        \* self.active
    token_file,    \* whether token.pickle exists
    local,         \* local working directory: file name -> content
    last,          \* what the last command was given, printed, returned, raised, requested
    fetches,       \* history: folder id -> listing fetches [started, completed]
    pushed,        \* history: frames above the root, [name, ok], ok = the cd succeeded
    nuploads       \* history: files created on the remote

vars == << remote, folder_stack, heap, drive_items, cache, credentials, active,
           token_file, local, last, fetches, pushed, nuploads >>

\* the object's fields a command works on
Self == [ folder_stack |-> folder_stack, heap |-> heap,
          drive_items |-> drive_items, cache |-> cache ]

Top(stack) == stack[Len(stack)]

\* the dict self.drive_items refers to
Listing(s) == s.heap[s.drive_items]

(* ------------------------------ GDriveApi ------------------------------- *)
\* get_item: the item under name in the current listing, or None
get_item(s, name) ==
    IF DictHas(Listing(s), name) THEN Some(DictGet(Listing(s), name)) ELSE None

\* a push at the front, as main.py's folder_stack.insert(0, frame)
PushFront(stack, frame) == << frame >> \o stack

\* self.folder_stack.append(frame)
Push(stack, frame) == Append(stack, frame)

\* the test of cd's first branch
IsPop(s, folder_name) == folder_name = ".." /\ Len(s.folder_stack) > 1

RECURSIVE FetchLoop(_, _, _, _)
\* cd's paging loop from request k on: request k raises when k = fail; the
\* response of the last page carries no nextPageToken
FetchLoop(pages, k, fail, d) ==
    IF k = fail
    THEN [dict |-> d, raised |-> TRUE, requests |-> k]
    ELSE LET d2 == DictUpdateByName(d, pages[k])
         IN  IF k = Len(pages)
             THEN [dict |-> d2, raised |-> FALSE, requests |-> k]
             ELSE FetchLoop(pages, k + 1, fail, d2)

\* Dict objects are named by address.  The dict cd creates for the listing of
\* folder_id has the address folder_id: at most one such dict is alive at a
\* time, as a dict that is not in the cache is referenced by self.drive_items
\* alone and is freed when cd rebinds it.  Collect drops the dicts nothing
\* refers to.
Collect(s) ==
    LET live == {s.drive_items} \cup {s.cache[id] : id \in DOMAIN s.cache}
    IN  [s EXCEPT !.heap = [a \in live |-> s.heap[a]]]

\* a fetch of the listing of folder_id into a new dict; cached tells whether the
\* dict is entered in the cache
Fetch(s, stack1, folder_id, f, cached) ==
    [ self |-> Collect([ folder_stack |-> stack1,
                         heap |-> (folder_id :> f.dict) @@ s.heap,
                         drive_items |-> folder_id,
                         cache |-> IF cached THEN (folder_id :> folder_id) @@ s.cache
                                   ELSE s.cache ]),
      printed |-> <<>>,
      raised |-> IF f.raised THEN Some("HttpError") ELSE None,
      calls |-> [k \in 1..f.requests |->
                   [op |-> "list", id |-> folder_id, pageToken |-> k - 1]] ]

\* Resolve without the test of the cache: every cd fetches
ResolveNoCacheTest(s, rem, stack1, folder_id, fail) ==
    LET f == FetchLoop(ListPages(rem, folder_id), 1, fail, EmptyDict)
    IN  Fetch(s, stack1, folder_id, f, ~f.raised)

\* Resolve with the new dict entered in the cache before the paging loop
ResolveCachedFirst(s, rem, stack1, folder_id, fail) ==
    IF folder_id \in DOMAIN s.cache
    THEN [ self |-> Collect([s EXCEPT !.folder_stack = stack1,
                                      !.drive_items = s.cache[folder_id]]),
           printed |-> <<>>, raised |-> None, calls |-> <<>> ]
    ELSE LET f == FetchLoop(ListPages(rem, folder_id), 1, fail, EmptyDict)
         IN  Fetch(s, stack1, folder_id, f, TRUE)

\* Resolve with self.cache[folder_id] = dict(self.drive_items): the cache keeps
\* a copy of the fetched dict, at an address of its own
ResolveCachedCopy(s, rem, stack1, folder_id, fail) ==
    IF folder_id \in DOMAIN s.cache
    THEN [ self |-> Collect([s EXCEPT !.folder_stack = stack1,
                                      !.drive_items = s.cache[folder_id]]),
           printed |-> <<>>, raised |-> None, calls |-> <<>> ]
    ELSE LET f == FetchLoop(ListPages(rem, folder_id), 1, fail, EmptyDict)
             r == Fetch(s, stack1, folder_id, f, FALSE)
             copy == "copy of " \o folder_id
         IN  IF f.raised THEN r
             ELSE [r EXCEPT !.self.heap = (copy :> f.dict) @@ @,
                            !.self.cache = (folder_id :> copy) @@ @]

\* the tail of cd: self.drive_items becomes the listing of folder_id, from the
\* cache or fetched page by page and then cached
Resolve(s, rem, stack1, folder_id, fail) ==
    IF folder_id \in DOMAIN s.cache
    THEN [ self |-> Collect([s EXCEPT !.folder_stack = stack1,
                                      !.drive_items = s.cache[folder_id]]),
           printed |-> <<>>, raised |-> None, calls |-> <<>> ]
    ELSE LET f == FetchLoop(ListPages(rem, folder_id), 1, fail, EmptyDict)
         IN  Fetch(s, stack1, folder_id, f, ~f.raised)

\* cd's early return with the lookup done after the push
CannotFindPushed(s, folder_name) ==
    [ self |-> [s EXCEPT !.folder_stack =
                    Push(@, [name |-> folder_name, id |-> Top(@).id])],
      printed |-> << MSG_CANNOT_FIND >>, raised |-> None, calls |-> <<>> ]

\* cd's early return: the name is not in the current listing
CannotFind(s, folder_name) ==
    [ self |-> s, printed |-> << MSG_CANNOT_FIND >>, raised |-> None, calls |-> <<>> ]

\* cd(folder_name); fail = 0, or the number of the listing request that raises
cd(s, rem, folder_name, fail) ==
    IF IsPop(s, folder_name)
    THEN LET stack1 == SubSeq(s.folder_stack, 1, Len(s.folder_stack) - 1)
         IN  Resolve(s, rem, stack1, Top(stack1).id, fail)
    ELSE LET desired_item == get_item(s, folder_name)
         IN  IF desired_item = None
             THEN CannotFind(s, folder_name)
             ELSE LET folder_id == desired_item[1].id
                      stack1 == Push(s.folder_stack,
                                     [name |-> folder_name, id |-> folder_id])
                  IN  Resolve(s, rem, stack1, folder_id, fail)

\* __init__ up to the call of cd('root')
Constructed ==
    [ folder_stack |-> <<>>,
      heap |-> ("init" :> << [key |-> "root", val |-> [id |-> "root"]] >>),
      drive_items |-> "init",
      cache |-> <<>> ]

RECURSIVE JoinSlash(_)
\* "/".join(names)
JoinSlash(names) ==
    IF names = <<>> THEN ""
    ELSE IF Len(names) = 1 THEN names[1]
    ELSE names[1] \o "/" \o JoinSlash(Tail(names))

get_current_path_string(s) ==
    JoinSlash([i \in 1..Len(s.folder_stack) |-> s.folder_stack[i].name])

get_names(s) == DictKeys(Listing(s))

typeof(s, name) ==
    LET desired_item == get_item(s, name)
    IN  IF desired_item = None THEN MSG_NOT_EXIST ELSE desired_item[1].mimeType

RECURSIVE LsLoop(_)
LsLoop(d) ==
    IF d = <<>> THEN ""
    ELSE LET is_folder == Head(d).val.mimeType = FOLDER_MIME
         IN  (IF is_folder THEN OKBLUE ELSE "") \o Head(d).key \o "\n"
             \o (IF is_folder THEN ENDC ELSE "") \o LsLoop(Tail(d))

ls(s) == LsLoop(Listing(s))

\* the entry built from the request's metadata alone, without the response's id
UploadEntryNoId(file_id, name, mime_type) == Item(name, name, mime_type)

\* the entry upload puts into the current listing
UploadEntry(file_id, name, mime_type) == Item(file_id, name, mime_type)

\* MediaFileUpload when no FileNotFoundError were raised for a missing source
MediaFileUploadUnchecked(loc, name) == TRUE

\* MediaFileUpload(name) opens the local source: FALSE is FileNotFoundError
MediaFileUpload(loc, name) == name \in DOMAIN loc

\* upload(name); fail = the create request raises; file_id = the id the remote assigns
upload(s, rem, loc, name, fail, file_id) ==
    LET parent == Top(s.folder_stack).id
        req == [op |-> "create", parent |-> parent, name |-> name,
                mimeType |-> PLAIN_MIME, id |-> file_id]
        same == [self |-> s, remote |-> rem, printed |-> <<>>, raised |-> None,
                 calls |-> <<>>]
    IN  IF ~MediaFileUpload(loc, name)
        THEN [same EXCEPT !.printed = << MSG_FILE_NOT_FOUND >>]
        ELSE IF fail
        THEN [same EXCEPT !.raised = Some("HttpError"), !.calls = << req >>]
        ELSE [ self |-> [s EXCEPT !.heap[s.drive_items] =
                             DictSet(@, name, UploadEntry(file_id, name, PLAIN_MIME))],
               remote |-> RemoteCreate(rem, parent, Item(file_id, name, PLAIN_MIME)),
               printed |-> <<>>, raised |-> None, calls |-> << req >> ]

\* download's table of format options
mime_type_options ==
    ("-pdf" :> PDF_MIME) @@ ("-docs" :> DOCX_MIME) @@ ("-excel" :> XLSX_MIME)
    @@ ("-powerpoint" :> PPTX_MIME)

RECURSIVE OptionLoopReset(_, _)
\* the loop with mime_type = mime_type_options.get(opt)
OptionLoopReset(options, mime_type) ==
    IF options = <<>> THEN mime_type
    ELSE OptionLoopReset(Tail(options),
                         IF Head(options) \in DOMAIN mime_type_options
                         THEN Some(mime_type_options[Head(options)])
                         ELSE None)

RECURSIVE OptionLoop(_, _)
\* for opt in options: if opt in mime_type_options: mime_type = mime_type_options[opt]
OptionLoop(options, mime_type) ==
    IF options = <<>> THEN mime_type
    ELSE OptionLoop(Tail(options),
                    IF Head(options) \in DOMAIN mime_type_options
                    THEN Some(mime_type_options[Head(options)])
                    ELSE mime_type)

\* the export type download settles on; options is None or Some(list)
ExportMime(options) ==
    LET opts == IF options = None THEN <<>> ELSE options[1]
        mime_type == OptionLoop(opts, None)
    IN  IF mime_type # None THEN mime_type[1] ELSE PDF_MIME

\* the request download builds for an item
DownloadRequest(item, mime_type) ==
    IF StartsWith(item.mimeType, NATIVE_PREFIX)
    THEN [op |-> "export_media", fileId |-> item.id, mimeType |-> mime_type]
    ELSE [op |-> "get_media", fileId |-> item.id]

\* "Download %d%%." after chunk k of n
ProgressLine(k, n) == "Download " \o ToString((k * 100) \div n) \o "%."

\* an error handler that removes the partly written target
ExceptHttpErrorCleanup(loc, target, printed) ==
    [ local |-> [f \in DOMAIN loc \ {target} |-> loc[f]],
      printed |-> Append(printed, "http.content") ]

\* except HttpError as http: print(http.content.decode('utf-8')); the files are
\* left as the transfer wrote them
ExceptHttpError(loc, target, printed) ==
    [ local |-> loc, printed |-> Append(printed, "http.content") ]

\* download(name, options, target_filename); the transfer takes nchunks chunks,
\* and chunk number fail raises HttpError (0: none does)
download(s, loc, name, options, target_filename, nchunks, fail) ==
    LET mime_type == ExportMime(options)
        desired_item == get_item(s, name)
        same == [local |-> loc, printed |-> <<>>, raised |-> None, calls |-> <<>>]
    IN  IF desired_item = None
        THEN [same EXCEPT !.printed = << MSG_NOT_EXIST >>]
        ELSE LET target == IF target_filename = None THEN name ELSE target_filename[1]
                 request == DownloadRequest(desired_item[1], mime_type)
                 got == IF fail = 0 THEN nchunks ELSE fail - 1
                 asked == IF fail = 0 THEN nchunks ELSE fail
                 progress == [k \in 1..got |-> ProgressLine(k, nchunks)]
                 calls == [k \in 1..asked |-> request]
             IN  IF fail = 0
                 THEN [ local |-> (target :> "complete") @@ loc,
                        printed |-> progress, raised |-> None, calls |-> calls ]
                 ELSE LET h == ExceptHttpError((target :> "partial") @@ loc, target,
                                               progress)
                      IN  [ local |-> h.local, printed |-> h.printed,
                            raised |-> None, calls |-> calls ]

(* ------------------------------- commands -------------------------------- *)
\* One action per command, as get_options dispatches them.  A command that
\* raises leaves the object as it is at the raise, and the session goes on with
\* the next command.
\* ids the remote assigns to created files
NewFileId(n) == "u" \o ToString(n)

MaxPages(rem) ==
    CHOOSE m \in {Len(rem[id]) : id \in DOMAIN rem} :
        \A id \in DOMAIN rem : Len(rem[id]) <= m

Outcome(cmd, arg, printed, ret, raised, calls) ==
    [cmd |-> cmd, arg |-> arg, printed |-> printed, ret |-> ret,
     raised |-> raised, calls |-> calls]

Init ==
    LET r == cd(Constructed, InitRemote, "root", 0)
    IN  /\ remote = InitRemote
        /\ folder_stack = r.self.folder_stack
        /\ heap = r.self.heap
        /\ drive_items = r.self.drive_items
        /\ cache = r.self.cache
        /\ credentials = Some("token")
        /\ active = TRUE
        /\ token_file = TRUE
        /\ local = ("n" :> "source")
        /\ last = Outcome("init", <<>>, r.printed, None, r.raised, r.calls)
        /\ fetches = [root |-> [started |-> 1, completed |-> 1]]
        /\ pushed = <<>>
        /\ nuploads = 0

SetSelf(s) ==
    /\ folder_stack' = s.folder_stack
    /\ heap' = s.heap
    /\ drive_items' = s.drive_items
    /\ cache' = s.cache

\* history of listing fetches, from the requests a cd made
Fetched(calls, raised) ==
    IF calls = <<>> THEN fetches
    ELSE LET id == calls[1].id
             old == IF id \in DOMAIN fetches THEN fetches[id]
                    ELSE [started |-> 0, completed |-> 0]
         IN  (id :> [started |-> old.started + 1,
                     completed |-> old.completed + (IF raised = None THEN 1 ELSE 0)])
             @@ fetches

\* listing fetches that raised so far
RECURSIVE FailedIn(_, _)
FailedIn(f, ids) ==
    IF ids = {} THEN 0
    ELSE LET id == CHOOSE x \in ids : TRUE
         IN  f[id].started - f[id].completed + FailedIn(f, ids \ {id})

FailedFetches == FailedIn(fetches, DOMAIN fetches)

\* history of the frames above the root
Pushed(s, folder_name, r) ==
    IF Len(r.self.folder_stack) < Len(s.folder_stack)
    THEN SubSeq(pushed, 1, Len(pushed) - 1)
    ELSE IF Len(r.self.folder_stack) > Len(s.folder_stack)
    THEN Append(pushed, [name |-> IF DictHas(Listing(s), folder_name)
                                  THEN DictGet(Listing(s), folder_name).name
                                  ELSE folder_name,
                         ok |-> r.printed = <<>> /\ r.raised = None])
    ELSE pushed

Cd(folder_name, fail) ==
    \E r \in {cd(Self, remote, folder_name, fail)} :
        /\ fail # 0 => (r.raised # None /\ FailedFetches < MaxFails)
        /\ SetSelf(r.self)
        /\ last' = Outcome("cd", folder_name, r.printed, None, r.raised, r.calls)
        /\ fetches' = Fetched(r.calls, r.raised)
        /\ pushed' = Pushed(Self, folder_name, r)
        /\ UNCHANGED << remote, credentials, active, token_file, local, nuploads >>

Upload(name, fail) ==
    \E r \in {upload(Self, remote, local, name, fail, NewFileId(nuploads + 1))} :
        /\ fail => r.raised = Some("HttpError")
        /\ r.remote # remote => nuploads < MaxUploads
        /\ SetSelf(r.self)
        /\ remote' = r.remote
        /\ last' = Outcome("upload", name, r.printed, None, r.raised, r.calls)
        /\ nuploads' = IF r.remote # remote THEN nuploads + 1 ELSE nuploads
        /\ UNCHANGED << credentials, active, token_file, local, fetches, pushed >>

Download(name, options, target_filename, nchunks, fail) ==
    \E r \in {download(Self, local, name, options, target_filename, nchunks, fail)} :
        /\ fail # 0 => r.calls # <<>>
        /\ local' = r.local
        /\ last' = Outcome("download", << name, options, target_filename >>,
                           r.printed, None, r.raised, r.calls)
        /\ UNCHANGED << remote, folder_stack, heap, drive_items, cache, credentials,
                        active, token_file, fetches, pushed, nuploads >>

\* a command that only reads the object and returns ret
Query(cmd, arg, ret) ==
    /\ last' = Outcome(cmd, arg, <<>>, ret, None, <<>>)
    /\ UNCHANGED << remote, folder_stack, heap, drive_items, cache, credentials,
                    active, token_file, local, fetches, pushed, nuploads >>

\* an ls that asks the remote for the children of the current folder before it
\* prints them, as the command loop of main.py lists on every turn
LsListed ==
    /\ last' = Outcome("ls", <<>>, <<>>, ls(Self), None,
                       << [op |-> "list", id |-> Top(folder_stack).id, pageToken |-> 0] >>)
    /\ UNCHANGED << remote, folder_stack, heap, drive_items, cache, credentials,
                    active, token_file, local, fetches, pushed, nuploads >>

Ls == Query("ls", <<>>, ls(Self))

Typeof(name) == Query("typeof", name, typeof(Self, name))

GetNames == Query("get_names", <<>>, get_names(Self))

GetItem(name) == Query("get_item", name, get_item(Self, name))

Current == Query("current", <<>>, get_current_path_string(Self))

\* logout removes the token file when there is one; the object keeps its
\* service, so the commands go on working after it
Logout ==
    /\ token_file' = FALSE
    /\ credentials' = None
    /\ active' = FALSE
    /\ last' = Outcome("logout", <<>>, <<>>, None, None, <<>>)
    /\ UNCHANGED << remote, folder_stack, heap, drive_items, cache, local,
                    fetches, pushed, nuploads >>

\* inputs of the commands: names of files in the working directory or on the drive
UploadNames == {"n", "A"}
DownloadNames == {"d"}
QueryNames == {"n"}
OptionLists == { None }

\* chunks the transfer of a file takes
ChunksOf(s, name) == IF get_item(s, name) = None THEN 1 ELSE 2

Next ==
    \/ \E name \in Names, fail \in 0..MaxPages(remote) : Cd(name, fail)
    \/ \E name \in UploadNames, fail \in BOOLEAN : Upload(name, fail)
    \/ \E name \in DownloadNames, options \in OptionLists :
          \E fail \in 0..ChunksOf(Self, name) :
            Download(name, options, None, ChunksOf(Self, name), fail)
    \/ Ls
    \/ \E name \in QueryNames : Typeof(name)
    \/ \E name \in QueryNames : GetItem(name)
    \/ GetNames
    \/ Current
    \/ Logout

Spec == Init /\ [][Next]_vars

(* A second specification for download's choice of request: the cursor moves *)
(* without remote failures, and download is given every list of at most      *)
(* MaxOpts options.                                                          *)
MaxOpts == 2

Options == {"-pdf", "-docs", "-excel", "-powerpoint", "-zip"}

OptionSeqs == UNION {[1..n -> Options] : n \in 0..MaxOpts}

ExportNames == {"A", "d", "e"}

ExportCdNames == {"A", ".."}

NextExport ==
    \/ \E name \in ExportCdNames : Cd(name, 0)
    \/ \E name \in ExportNames, options \in {None} \cup {Some(o) : o \in OptionSeqs} :
          Download(name, options, None, ChunksOf(Self, name), 0)

SpecExport == Init /\ [][NextExport]_vars

(* ------------------------------- claims ---------------------------------- *)
RootFrame == [name |-> "root", id |-> "root"]

\* the command of the last step succeeded: it printed no error and raised nothing
Succeeded == last.printed = <<>> /\ last.raised = None

Contains(str, sub) ==
    \E i \in 1..(Len(str) - Len(sub) + 1) : SubSeq(str, i, i + Len(sub) - 1) = sub

\* C1: in every state after construction the navigation stack is non-empty and
\* its bottom frame is ("root", "root").
C1_RootFrameAtBottom ==
    /\ Len(folder_stack) >= 1
    /\ folder_stack[1] = RootFrame

\* C1 witness: a cd ".." has popped the stack back to the root frame alone
C1_Witness ==
    /\ last.cmd = "cd" /\ last.arg = ".." /\ Succeeded
    /\ Len(folder_stack) = 1
    /\ nuploads > 0

\* C2 as stated: the listing fetch of a folder id is started at most once
C2_StartedAtMostOnce ==
    \A id \in DOMAIN fetches : fetches[id].started <= 1

\* C2 amended: the listing fetch of a folder id completes at most once, and a cd
\* that lands on a folder id present in the cache makes no remote listing call
\* (a fetch that raised is started again by the next cd to that folder).
C2_CompletedAtMostOnce ==
    [][ /\ \A id \in DOMAIN fetches' : fetches'[id].completed <= 1
        /\ ( /\ last'.cmd = "cd"
             /\ folder_stack' # folder_stack
             /\ Top(folder_stack').id \in DOMAIN cache )
           => (last'.calls = <<>> /\ fetches' = fetches) ]_vars

\* C2 witness: folder A, whose first fetch raised and whose second completed, is
\* entered again from the cache
C2_Witness ==
    /\ last.cmd = "cd" /\ last.arg = "A" /\ Succeeded /\ last.calls = <<>>
    /\ Top(folder_stack).id = "idA"
    /\ fetches["idA"] = [started |-> 2, completed |-> 1]

\* C3 as stated: cd(name) on an entry of the current listing that is not a folder
\* reports NotFound, pushes no frame, makes no remote listing call and leaves the
\* cursor and the current listing as they were.
C3_NotAFolderRejected ==
    [][ ( /\ last'.cmd = "cd"
          /\ get_item(Self, last'.arg) # None
          /\ get_item(Self, last'.arg)[1].mimeType # FOLDER_MIME )
        => ( /\ last'.printed = << MSG_CANNOT_FIND >>
             /\ last'.calls = <<>>
             /\ UNCHANGED << folder_stack, heap, drive_items, cache >> ) ]_vars

\* C4: cd(X), X not ".." and not a key of the current listing, reports NotFound,
\* makes no remote call and leaves stack, current listing and cache as they were.
C4_AbsentNameNotFound ==
    [][ ( /\ last'.cmd = "cd"
          /\ last'.arg # ".."
          /\ \A i \in 1..Len(heap[drive_items]) : heap[drive_items][i].key # last'.arg )
        => ( /\ last'.printed = << MSG_CANNOT_FIND >>
             /\ last'.raised = None
             /\ last'.calls = <<>>
             /\ UNCHANGED << folder_stack, heap, drive_items, cache, remote, fetches >> )
      ]_vars

\* C4 witness: cd d was refused in a folder that holds no d, below the root
C4_Witness ==
    /\ last.cmd = "cd" /\ last.arg = "d"
    /\ last.printed = << MSG_CANNOT_FIND >>
    /\ Len(folder_stack) > 1
    /\ ~DictHas(heap[drive_items], "d")

\* C5 as stated: cd("..") with only the root frame on the stack changes neither
\* stack, path string, current listing nor cache and makes no remote call,
\* whatever the root listing holds.
C5_DotDotAtRootNoOp ==
    [][ ( /\ last'.cmd = "cd"
          /\ last'.arg = ".."
          /\ Len(folder_stack) = 1 )
        => ( /\ UNCHANGED << folder_stack, heap, drive_items, cache >>
             /\ last'.calls = <<>>
             /\ fetches' = fetches ) ]_vars

\* the names of the frames that successful cd commands pushed and that are still
\* on the stack, root first
PushedNames ==
    LET ok == SelectSeq(pushed, LAMBDA f : f.ok)
    IN  << "root" >> \o [i \in 1..Len(ok) |-> ok[i].name]

\* C6 as stated: the path string is "root" followed by the display names of the
\* frames pushed by successful cd commands and not yet popped, joined with "/";
\* failed cd commands contribute nothing.
C6_PathOfSuccessfulCds ==
    get_current_path_string(Self) = JoinSlash(PushedNames)

\* C7: right after a successful upload(name), ls lists name and lookup(name)
\* returns the entry with the id the remote assigned and mimeType text/plain;
\* neither the upload nor the ls/lookup makes a remote listing call.
C7_UploadedEntryVisible ==
    [][ ( /\ last.cmd = "upload" /\ last.calls # <<>> /\ Succeeded
          /\ last'.cmd \in {"ls", "get_item", "typeof"} )
        => ( /\ \A i \in 1..Len(last.calls) : last.calls[i].op = "create"
             /\ last'.calls = <<>>
             /\ fetches' = fetches
             /\ last'.cmd = "ls" => Contains(last'.ret, last.arg \o "\n")
             /\ (last'.cmd = "get_item" /\ last'.arg = last.arg)
                => last'.ret = Some([ id |-> last.calls[1].id, name |-> last.arg,
                                      mimeType |-> "text/plain" ])
             /\ (last'.cmd = "typeof" /\ last'.arg = last.arg)
                => last'.ret = "text/plain" ) ]_vars

\* C7 witness: lookup of n returns the entry of the file the remote created
C7_Witness ==
    /\ last.cmd = "get_item" /\ last.arg = "n"
    /\ last.ret # None
    /\ last.ret[1].id = NewFileId(nuploads)
    /\ nuploads > 0

RECURSIVE Flatten(_)
\* the entries of all pages, in the order the remote returns them
Flatten(pages) == IF pages = <<>> THEN <<>> ELSE Head(pages) \o Flatten(Tail(pages))

\* ids of the files upload has created
UploadedIds(n) == {NewFileId(k) : k \in 1..n}

\* C8 as stated: upload changes exactly one key of exactly one cache entry, that
\* of the folder F the cursor is at; the uploaded name is visible whenever the
\* cursor is at F, with no re-fetch of F, and an uploaded entry is in the cached
\* listing of no folder id but the one it was uploaded to.
C8_UploadInOneCacheEntry ==
    [][ /\ ( last'.cmd = "upload" /\ last'.calls # <<>>
             /\ last'.printed = <<>> /\ last'.raised = None )
           => LET F == Top(folder_stack).id
              IN  /\ F \in DOMAIN cache
                  /\ DOMAIN cache' = DOMAIN cache
                  /\ \A id \in DOMAIN cache \ {F} : heap'[cache'[id]] = heap[cache[id]]
                  /\ DictHas(heap'[cache'[F]], last'.arg)
                  /\ \A i \in 1..Len(heap[cache[F]]) :
                        heap[cache[F]][i].key # last'.arg
                        => heap'[cache'[F]][i] = heap[cache[F]][i]
        /\ LET here == Flatten(ListPages(remote', Top(folder_stack').id))
           IN  \A j \in 1..Len(here) :
                  here[j].id \in UploadedIds(nuploads')
                  => DictHas(heap'[drive_items'], here[j].name)
        /\ \A id \in DOMAIN cache' :
              \A i \in 1..Len(heap'[cache'[id]]) :
                 heap'[cache'[id]][i].val.id \in UploadedIds(nuploads')
                 => \E j \in 1..Len(Flatten(ListPages(remote', id))) :
                       Flatten(ListPages(remote', id))[j] = heap'[cache'[id]][i].val
        /\ \A id \in DOMAIN fetches :
              (fetches[id].completed = 1 /\ id \in DOMAIN fetches')
              => fetches'[id] = fetches[id] ]_vars

\* what the remote returns for a folder, as a mapping: all names of all pages,
\* each with the entry returned last under that name
Aggregate(pages) ==
    LET all == Flatten(pages)
        names == {all[j].name : j \in 1..Len(all)}
    IN  [n \in names |->
           all[CHOOSE j \in 1..Len(all) :
                 /\ all[j].name = n
                 /\ \A k \in (j + 1)..Len(all) : all[k].name # n]]

AsMapping(d) == [k \in {d[i].key : i \in 1..Len(d)} |-> DictGet(d, k)]

\* C9: every listing in the cache is the aggregate of all pages the remote
\* returns for its folder id; a fetch that raised part-way stored nothing.
C9_CacheHoldsAllPages ==
    \A id \in DOMAIN cache :
        AsMapping(heap[cache[id]]) = Aggregate(ListPages(remote, id))

\* C9 witness: the two-page listing of A is cached after a first fetch of it raised
C9_Witness ==
    /\ "idA" \in DOMAIN cache
    /\ fetches["idA"] = [started |-> 2, completed |-> 1]
    /\ Len(heap[cache["idA"]]) = 2
    /\ last.cmd = "cd"

\* the export type the options ask for: that of the last recognized hint, pdf
\* when there is none
ExpectedExport(options) ==
    LET opts == IF options = None THEN <<>> ELSE options[1]
        hints == {i \in 1..Len(opts) :
                    opts[i] \in {"-pdf", "-docs", "-excel", "-powerpoint"}}
        h == IF hints = {} THEN "-pdf"
             ELSE opts[CHOOSE i \in hints : \A j \in hints : j <= i]
    IN  CASE h = "-pdf" -> "application/pdf"
          [] h = "-docs" ->
               "application/vnd.openxmlformats-officedocument.wordprocessingml.document"
          [] h = "-excel" ->
               "application/vnd.openxmlformats-officedocument.spreadsheetml.sheet"
          [] h = "-powerpoint" ->
               "application/vnd.openxmlformats-officedocument.presentationml.presentation"

\* C10: a download of an entry with the native-document prefix requests the
\* export type of the recognized hint among its options (the last one, when
\* there are several) and application/pdf, as with no options, when none of
\* its options is a recognized hint.
C10_ExportTypeFromHint ==
    ( /\ last.cmd = "download"
      /\ get_item(Self, last.arg[1]) # None
      /\ StartsWith(get_item(Self, last.arg[1])[1].mimeType, "application/vnd.google-apps") )
    => ( /\ last.calls # <<>>
         /\ \A i \in 1..Len(last.calls) :
               /\ last.calls[i].op = "export_media"
               /\ last.calls[i].mimeType = ExpectedExport(last.arg[2])
               /\ ExpectedExport(last.arg[2]) = ExpectedExport(None)
                  => last.calls[i].mimeType = ExportMime(None) )

\* C10 witness: the document d was downloaded with a hint followed by an
\* option that is no hint
C10_Witness ==
    /\ last.cmd = "download"
    /\ last.arg[1] = "d"
    /\ last.arg[2] = Some(<< "-excel", "-zip" >>)
    /\ last.calls # <<>>
    /\ last.calls[1].op = "export_media"

\* a native-remote-only document type: the distinguished prefix, and not the
\* folder sentinel
IsNativeDocument(mimeType) ==
    /\ SubSeq(mimeType, 1, Len("application/vnd.google-apps"))
         = "application/vnd.google-apps"
    /\ mimeType # "application/vnd.google-apps.folder"

\* C11 as stated: a download of an entry of the current listing uses the export
\* path exactly when the entry is a native document, and the direct byte-fetch
\* path, whose request carries no format, for every other entry; a folder entry
\* is not exported.
C11_ExportIffNativeDocument ==
    ( /\ last.cmd = "download"
      /\ get_item(Self, last.arg[1]) # None )
    => LET item == get_item(Self, last.arg[1])[1]
       IN  /\ last.calls # <<>>
           /\ \A i \in 1..Len(last.calls) :
                 /\ last.calls[i].fileId = item.id
                 /\ IF IsNativeDocument(item.mimeType)
                    THEN last.calls[i].op = "export_media"
                    ELSE last.calls[i] = [op |-> "get_media", fileId |-> item.id]

\* C12: upload(name) with no local source of that name reports FileNotFound and
\* does nothing else: no request is made and no remote file created, and the
\* stack, the current listing and the cache are as they were.
C12_MissingSourceNoEffect ==
    [][ ( /\ last'.cmd = "upload"
          /\ last'.arg \notin DOMAIN local )
        => ( /\ last'.printed = << "File not found" >>
             /\ last'.raised = None
             /\ last'.calls = <<>>
             /\ UNCHANGED << remote, folder_stack, heap, drive_items, cache,
                             local, fetches, nuploads >> ) ]_vars

\* C12 witness: at the root, whose listing holds the folder A, upload A found no
\* local file A
C12_Witness ==
    /\ last.cmd = "upload" /\ last.arg = "A"
    /\ last.printed = << "File not found" >>
    /\ "A" \notin DOMAIN local
    /\ Len(folder_stack) = 1
    /\ DictHas(heap[drive_items], "A")

\* C13: download(name) of a name absent from the current listing reports NotFound,
\* issues no remote request and neither creates nor truncates a local file; when
\* a chunk request of the transfer raises HttpError, the error content is
\* reported, nothing escapes, the partly written target stays in place, and the
\* stack, the current listing and the cache are as they were.
C13_DownloadFailures ==
    [][ \A name \in DownloadNames, options \in OptionLists :
          \A fail \in 0..ChunksOf(Self, name) :
            Download(name, options, None, ChunksOf(Self, name), fail)
            => /\ get_item(Self, name) = None
                  => ( /\ last'.printed = << "File/Folder does not exist" >>
                       /\ last'.calls = <<>>
                       /\ last'.raised = None
                       /\ local' = local
                       /\ UNCHANGED << remote, folder_stack, heap, drive_items,
                                       cache, fetches >> )
               /\ ( get_item(Self, name) # None /\ fail # 0 )
                  => ( /\ last'.printed # <<>>
                       /\ last'.printed[Len(last'.printed)] = "http.content"
                       /\ last'.raised = None
                       /\ name \in DOMAIN local'
                       /\ local'[name] = "partial"
                       /\ \A f \in DOMAIN local : f # name =>
                             (f \in DOMAIN local' /\ local'[f] = local[f])
                       /\ UNCHANGED << remote, folder_stack, heap, drive_items,
                                       cache, fetches >> ) ]_vars

\* C13 witness: d is not in the root listing, and the download of d at the root
\* left alone the partial file d of an earlier transfer that failed
C13_Witness ==
    /\ last.cmd = "download" /\ last.arg[1] = "d"
    /\ last.printed = << "File/Folder does not exist" >>
    /\ last.calls = <<>>
    /\ Len(folder_stack) = 1
    /\ "d" \in DOMAIN local
    /\ local["d"] = "partial"

C15_CurrentListingIsCacheEntry ==
    FailedFetches = 0
    => /\ Top(folder_stack).id \in DOMAIN cache
       /\ cache[Top(folder_stack).id] = drive_items
       /\ ( last.cmd = "upload" /\ Succeeded /\ last.calls # <<>> )
          => /\ DictHas(heap[cache[Top(folder_stack).id]], last.arg)
             /\ DictGet(heap[cache[Top(folder_stack).id]], last.arg).id
                  = last.calls[1].id
             /\ get_item(Self, last.arg)
                  = Some(DictGet(heap[cache[Top(folder_stack).id]], last.arg))

\* C15 witness: a file was uploaded into folder A, entered by a cd that fetched
\* its listing, and is in the cache entry of idA
C15_Witness ==
    /\ FailedFetches = 0
    /\ last.cmd = "upload" /\ Succeeded /\ last.calls # <<>>
    /\ Top(folder_stack).id = "idA"
    /\ "idA" \in DOMAIN cache
    /\ DictHas(heap[cache["idA"]], last.arg)

\* C16 as stated: when a listing request made by cd(name) on a cache miss
\* raises, no error escapes the command and the cursor is as before it: no frame
\* stays pushed, the current listing is the one of the folder the cursor was in,
\* and the cache has no new entry.
C16_CdAtomicOnFailure ==
    [][ \A name \in Names, fail \in 1..MaxPages(remote) :
          Cd(name, fail)
          => /\ last'.raised = None
             /\ folder_stack' = folder_stack
             /\ drive_items' = drive_items
             /\ heap'[drive_items'] = heap[drive_items]
             /\ DOMAIN cache' = DOMAIN cache ]_vars

\* the names the remote returns more than once among the children of a folder
DuplicateNames(pages) ==
    LET all == Flatten(pages)
    IN  {all[j].name : j \in {j \in 1..Len(all) :
                                \E k \in 1..Len(all) : k # j /\ all[k].name = all[j].name}}

\* the entry the remote returns last under a name
LastReturned(pages, n) ==
    LET all == Flatten(pages)
        j == CHOOSE j \in 1..Len(all) :
                 /\ all[j].name = n
                 /\ \A k \in 1..Len(all) : all[k].name = n => k <= j
    IN  all[j]

\* C17: for a name the remote returns more than once among the children of a
\* folder, on one page or on several, the folder's listing holds exactly one
\* entry, the one returned last; lookup by that name returns it, and cd by that
\* name pushes a frame with its id.
C17_LastDuplicateWins ==
    [][ /\ \A id \in DOMAIN cache' :
             \A n \in DuplicateNames(ListPages(remote', id)) :
                /\ Cardinality({i \in 1..Len(heap'[cache'[id]]) :
                                   heap'[cache'[id]][i].key = n}) = 1
                /\ DictGet(heap'[cache'[id]], n)
                     = LastReturned(ListPages(remote', id), n)
                /\ drive_items' = cache'[id]
                   => get_item(Self', n)
                        = Some(LastReturned(ListPages(remote', id), n))
        /\ ( /\ last'.cmd = "cd"
             /\ Top(folder_stack).id \in DOMAIN cache
             /\ drive_items = cache[Top(folder_stack).id]
             /\ last'.arg \in DuplicateNames(ListPages(remote, Top(folder_stack).id))
             /\ ~IsPop(Self, last'.arg) )
           => folder_stack' =
                Append(folder_stack,
                       [ name |-> last'.arg,
                         id |-> LastReturned(ListPages(remote, Top(folder_stack).id),
                                             last'.arg).id ]) ]_vars

\* C17 witness: cd d in folder A, where the remote returns d twice on one page,
\* went to the second d; A itself is the second of the two A of the root, which
\* the remote returns on different pages
C17_Witness ==
    /\ last.cmd = "cd" /\ last.arg = "d"
    /\ Len(folder_stack) = 3
    /\ folder_stack[2] = [name |-> "A", id |-> "idA"]
    /\ folder_stack[3] = [name |-> "d", id |-> "idD2"]
    /\ "idA" \in DOMAIN cache
    /\ DuplicateNames(ListPages(remote, "root")) = {"A"}
    /\ DuplicateNames(ListPages(remote, "idA")) = {"d"}

\* C18: no command but cd changes the navigation stack; ls, typeof, lookup,
\* get_names, get_current_path_string and download (every command but cd and
\* upload) also leave the cache and every cached listing as they were and make
\* no remote listing call.
C18_OnlyCdMovesCursor ==
    [][ last'.cmd # "cd"
        => /\ folder_stack' = folder_stack
           /\ last'.cmd # "upload"
              => /\ cache' = cache
                 /\ \A id \in DOMAIN cache : heap'[cache'[id]] = heap[cache[id]]
                 /\ \A i \in 1..Len(last'.calls) : last'.calls[i].op # "list"
                 /\ fetches' = fetches ]_vars

\* C18 witness: below the root, after an upload, a download has made its
\* requests to the remote
C18_Witness ==
    /\ last.cmd = "download"
    /\ last.calls # <<>>
    /\ Len(folder_stack) > 1
    /\ nuploads > 0
    /\ Cardinality(DOMAIN cache) > 1

====
